---- MODULE Spec2Model ----
(***************************************************************************)
(* Model of the thumbnails server: the Express handlers of server.js      *)
(* (v1 and legacy), the API-key middleware of middleware/auth.js, and the *)
(* node-cache instance `imageCache` the handlers share.                   *)
(*                                                                         *)
(* Strings are sequences of one-character strings, so that split, trim,   *)
(* extname, basename, endsWith and the cache-key template are computed    *)
(* character by character as the JavaScript does.                         *)
(*                                                                         *)
(* A handler is cut at its awaits.  The arrival of a request is placed at *)
(* the first point where the handler touches shared state: for an upload  *)
(* or a delete that is the moment the store applies (or fails) the        *)
(* PutObject / DeleteObject command, for a fetch it is the cache lookup.  *)
(***************************************************************************)
EXTENDS Integers, Sequences, FiniteSets, TLC

(***************************************************************************)
(* Bounds of the model.                                                    *)
(***************************************************************************)
MaxLookups == 2
MaxReloads == 1
TickStep == 1350
MaxNow == 4050
MaxLoads == 3
DayStep == 43200
MaxDay == 129600
KeepStep == 300
MaxUptime == 7200

(***************************************************************************)
(* Program constants.                                                      *)
(***************************************************************************)
stdTTL == 2700

\* The handlers that can be suspended at an await at the same time.
Procs == {1, 2}

(***************************************************************************)
(* JavaScript values.                                                      *)
(***************************************************************************)
Undefined == <<"undefined">>
Empty == << >>

Truthy(s) == s # Undefined /\ s # Empty

Or(a, b) == IF Truthy(a) THEN a ELSE b

LowerChar(c) ==
  CASE c = "P" -> "p"
    [] c = "N" -> "n"
    [] c = "G" -> "g"
    [] c = "W" -> "w"
    [] c = "E" -> "e"
    [] c = "B" -> "b"
    [] c = "A" -> "a"
    [] OTHER -> c

toLowerCase(s) == [i \in 1..Len(s) |-> LowerChar(s[i])]

endsWith(s, suf) ==
  /\ Len(suf) <= Len(s)
  /\ SubSeq(s, Len(s) - Len(suf) + 1, Len(s)) = suf

IsSpace(c) == c \in {" ", "\t", "\n", "\r"}

RECURSIVE trimStart(_)
trimStart(s) ==
  IF s # Empty /\ IsSpace(Head(s)) THEN trimStart(Tail(s)) ELSE s

RECURSIVE trimEnd(_)
trimEnd(s) ==
  IF s # Empty /\ IsSpace(s[Len(s)]) THEN trimEnd(SubSeq(s, 1, Len(s) - 1)) ELSE s

\* trim removing the leading whitespace only.
trim_leading(s) == trimStart(s)

trim(s) == trimEnd(trimStart(s))

\* s.split(sep) for a one-character separator: a list of Len-of-separators + 1
\* pieces, the empty string giving one empty piece.
RECURSIVE splitFrom(_, _, _)
splitFrom(s, sep, cur) ==
  IF s = Empty THEN <<cur>>
  ELSE IF Head(s) = sep THEN <<cur>> \o splitFrom(Tail(s), sep, Empty)
  ELSE splitFrom(Tail(s), sep, Append(cur, Head(s)))

split(s, sep) == splitFrom(s, sep, Empty)

\* includes answering whether the list has any element.
includes_nonEmpty(list, x) == Len(list) > 0

includes(list, x) == \E i \in 1..Len(list) : list[i] = x

LastIndexOf(s, c) ==
  IF \E i \in 1..Len(s) : s[i] = c
  THEN CHOOSE i \in 1..Len(s) : s[i] = c /\ \A j \in (i + 1)..Len(s) : s[j] # c
  ELSE 0

\* The last path segment.
LastSegment(s) == SubSeq(s, LastIndexOf(s, "/") + 1, Len(s))

\* path.extname: from the last '.' of the last segment to the end; empty when
\* there is no '.' or the only '.' is the segment's first character.
extname(p) ==
  LET b == LastSegment(p)
      d == LastIndexOf(b, ".")
  IN IF d <= 1 THEN Empty ELSE SubSeq(b, d, Len(b))

\* path.basename(p, ext): the last segment, without ext when it ends with it
\* (compared exactly, case included); empty when p is ext itself.
basename(p, ext) ==
  LET b == LastSegment(p)
  IN IF ext # Empty /\ p = ext THEN Empty
     ELSE IF ext # Empty /\ b # ext /\ endsWith(b, ext)
     THEN SubSeq(b, 1, Len(b) - Len(ext))
     ELSE b

DotPng == <<".", "p", "n", "g">>
DotJpg == <<".", "j", "p", "g">>
DotJpeg == <<".", "j", "p", "e", "g">>
DotWebp == <<".", "w", "e", "b", "p">>
FmtPng == <<"p", "n", "g">>
FmtWebp == <<"w", "e", "b", "p">>

(***************************************************************************)
(* middleware/auth.js                                                      *)
(***************************************************************************)
RECURSIVE SelectNonEmpty(_)
SelectNonEmpty(list) ==
  IF list = << >> THEN << >>
  ELSE IF Head(list) # << >> THEN <<Head(list)>> \o SelectNonEmpty(Tail(list))
  ELSE SelectNonEmpty(Tail(list))

\* validKeys with a .filter(Boolean) after the trim.
validKeys_filtered(API_KEYS) ==
  IF Truthy(API_KEYS)
  THEN LET parts == split(API_KEYS, ",")
       IN SelectNonEmpty([i \in 1..Len(parts) |-> trim(parts[i])])
  ELSE << >>

\* process.env.API_KEYS ? process.env.API_KEYS.split(',').map(k => k.trim()) : []
validKeys(API_KEYS) ==
  IF Truthy(API_KEYS)
  THEN LET parts == split(API_KEYS, ",")
       IN [i \in 1..Len(parts) |-> trim(parts[i])]
  ELSE << >>

Res(status, code) == [status |-> status, code |-> code]
CallNext == [status |-> 0, code |-> "next"]

\* requireApiKey with the configuration check made before the header check.
requireApiKey_configFirst(apiKey, API_KEYS) ==
  IF Len(validKeys(API_KEYS)) = 0 THEN <<Res(500, "SERVER_MISCONFIGURED")>>
  ELSE IF ~Truthy(apiKey) THEN <<Res(401, "MISSING_API_KEY")>>
  ELSE IF ~includes(validKeys(API_KEYS), apiKey) THEN <<Res(403, "INVALID_API_KEY")>>
  ELSE <<CallNext>>

\* requireApiKey without the return in front of the 401 response: it goes on
\* to the checks that follow.
requireApiKey_noReturn(apiKey, API_KEYS) ==
  (IF ~Truthy(apiKey) THEN <<Res(401, "MISSING_API_KEY")>> ELSE << >>)
    \o (IF Len(validKeys(API_KEYS)) = 0 THEN <<Res(500, "SERVER_MISCONFIGURED")>>
        ELSE IF ~includes(validKeys(API_KEYS), apiKey) THEN <<Res(403, "INVALID_API_KEY")>>
        ELSE <<CallNext>>)

\* The responses and next() calls the middleware makes for one request, in
\* the order it makes them.
requireApiKey(apiKey, API_KEYS) ==
  IF ~Truthy(apiKey) THEN <<Res(401, "MISSING_API_KEY")>>
  ELSE IF Len(validKeys(API_KEYS)) = 0 THEN <<Res(500, "SERVER_MISCONFIGURED")>>
  ELSE IF ~includes(validKeys(API_KEYS), apiKey) THEN <<Res(403, "INVALID_API_KEY")>>
  ELSE <<CallNext>>

\* Chain with the v1 routes registered as the legacy routes are.
Chain_unprotected(legacy, apiKey, API_KEYS) == <<CallNext>>

\* The middleware chain in front of a handler: the v1 protected routes
\* register requireApiKey first, the legacy routes register the handler alone.
Chain(legacy, apiKey, API_KEYS) ==
  IF legacy THEN <<CallNext>> ELSE requireApiKey(apiKey, API_KEYS)

(***************************************************************************)
(* node-cache, as server.js uses it: a cache is a record of the entry set *)
(* `data` ([k, v, t], t the expiry instant) and the statistics.  Time is  *)
(* in seconds.                                                             *)
(***************************************************************************)
NoBuf == [fmt |-> "none", px |-> 0]

NewCache == [data |-> {}, hits |-> 0, misses |-> 0, keys |-> 0]

Has(c, k) == \E e \in c.data : e.k = k

Entry(c, k) == CHOOSE e \in c.data : e.k = k

\* del that removes nothing.
del_nothing(c, k) == c

\* del(key): removes the entry when there is one and counts it out of keys.
del(c, k) ==
  IF Has(c, k)
  THEN [c EXCEPT !.data = {e \in c.data : e.k # k}, !.keys = c.keys - 1]
  ELSE c

\* _check with the expiry instant itself counted as expired.
expired_atInstant(e, t) == e.t # 0 /\ e.t <= t

\* _check: an entry is expired once its expiry instant lies before now.
expired(e, t) == e.t # 0 /\ e.t < t

\* get that counts a miss for an expired entry only.
get_absentUncounted(c, k, t) ==
  IF Has(c, k) /\ ~expired(Entry(c, k), t)
  THEN [cache |-> [c EXCEPT !.hits = c.hits + 1], found |-> TRUE, v |-> Entry(c, k).v]
  ELSE IF Has(c, k)
  THEN [cache |-> [del(c, k) EXCEPT !.misses = c.misses + 1], found |-> FALSE, v |-> NoBuf]
  ELSE [cache |-> c, found |-> FALSE, v |-> NoBuf]

\* get(key): a live entry counts a hit and yields its value; an expired
\* entry is deleted; no entry or an expired one counts a miss.
get(c, k, t) ==
  IF Has(c, k) /\ ~expired(Entry(c, k), t)
  THEN [cache |-> [c EXCEPT !.hits = c.hits + 1], found |-> TRUE, v |-> Entry(c, k).v]
  ELSE LET purged == del(c, k)
       IN [cache |-> [purged EXCEPT !.misses = purged.misses + 1],
           found |-> FALSE, v |-> NoBuf]

\* set that leaves an entry already stored under the key as it is.
set_ifAbsent(c, k, v, t, ttl) ==
  IF Has(c, k) THEN c
  ELSE [c EXCEPT !.data = c.data \cup {[k |-> k, v |-> v, t |-> IF ttl = 0 THEN 0 ELSE t + ttl]},
                 !.keys = c.keys + 1]

\* set(key, value): insert or replace, expiring ttl seconds from now (never
\* when ttl is 0).
set(c, k, v, t, ttl) ==
  LET e == [k |-> k, v |-> v, t |-> IF ttl = 0 THEN 0 ELSE t + ttl]
  IN [c EXCEPT !.data = {x \in c.data : x.k # k} \cup {e},
               !.keys = IF Has(c, k) THEN c.keys ELSE c.keys + 1]

\* flushAll that keeps the hit and miss counts.
flushAll_keepCounts(c) == [data |-> {}, hits |-> c.hits, misses |-> c.misses, keys |-> 0]

\* flushAll(): drops every entry and resets the statistics.
flushAll(c) == [data |-> {}, hits |-> 0, misses |-> 0, keys |-> 0]

\* The periodic sweep (checkperiod): deletes every expired entry.
checkData(c, t) ==
  LET dead == {e \in c.data : expired(e, t)}
  IN [c EXCEPT !.data = c.data \ dead, !.keys = c.keys - Cardinality(dead)]

getStats(c) == [keys |-> c.keys, hits |-> c.hits, misses |-> c.misses]

(***************************************************************************)
(* sharp and the object store.  An image buffer is [fmt, px]: the encoding *)
(* of its bytes and the picture they show.  sharp decodes any of its      *)
(* supported encodings whatever the file is called and throws on bytes    *)
(* that are no image.                                                      *)
(***************************************************************************)
Png1 == [fmt |-> "png", px |-> 1]
Png2 == [fmt |-> "png", px |-> 2]
Webp1 == [fmt |-> "webp", px |-> 1]
BadBuf == [fmt |-> "bad", px |-> 0]

sharpOk(buf) == buf.fmt \in {"png", "jpeg", "webp"}

toWebp(buf) == [fmt |-> "webp", px |-> buf.px]

toPng(buf) == [fmt |-> "png", px |-> buf.px]

\* The bucket is a set of objects [key, body], one per key.
Stored(s, key) == \E o \in s : o.key = key

Body(s, key) == (CHOOSE o \in s : o.key = key).body

PutObject(s, key, body) == {o \in s : o.key # key} \cup {[key |-> key, body |-> body]}

DeleteObject(s, key) == {o \in s : o.key # key}

(***************************************************************************)
(* The moderators file: loadModerators of server.js.                      *)
(***************************************************************************)
RECURSIVE SelectLines(_)
\* .filter(line => line && !line.startsWith('#'))
SelectLines(lines) ==
  IF lines = << >> THEN << >>
  ELSE IF Head(lines) # Empty /\ Head(Head(lines)) # "#"
  THEN <<Head(lines)>> \o SelectLines(Tail(lines))
  ELSE SelectLines(Tail(lines))

\* parseModerators without the trim of each line.
parseModerators_untrimmed(fileContent) ==
  LET kept == SelectLines(split(fileContent, "\n"))
  IN [i \in 1..Len(kept) |-> toLowerCase(kept[i])]

\* split('\n'), trim each line, drop blank and comment lines, lower-case.
parseModerators(fileContent) ==
  LET lines == split(fileContent, "\n")
      trimmed == [i \in 1..Len(lines) |-> trim(lines[i])]
      kept == SelectLines(trimmed)
  IN [i \in 1..Len(kept) |-> toLowerCase(kept[i])]

ModKey == <<"moderators_list">>

modTTL == 86400

\* setTimeout(keepAlive, 5 * 60 * 1000) and setInterval(..., 10 * 60 * 1000),
\* in seconds.
keepAliveDelay == 300

keepAliveInterval == 600

(***************************************************************************)
(* Inputs of the requests.                                                 *)
(***************************************************************************)
K1 == <<"k", "1">>
K2 == <<"k", "2">>
KBad == <<"z">>

ApiKeyHeaders == {Undefined, Empty, K1, K2, KBad}

EnvK1K2 == <<"k", "1", " ", ",", " ", "k", "2">>

\* Values of API_KEYS: unset, empty, separators and blanks only, two keys
\* with blanks around them.
EnvChoices == {Undefined, Empty, <<",">>, <<" ", ",", " ">>, EnvK1K2}

\* The requests a protected route can receive: the legacy routes ignore the
\* header.
V1Callers == {[legacy |-> FALSE, apiKey |-> k] : k \in ApiKeyHeaders}

LegacyCaller == [legacy |-> TRUE, apiKey |-> Undefined]

Callers == V1Callers \cup {LegacyCaller}

AWebp == <<"a">> \o DotWebp
BWebp == <<"b">> \o DotWebp
APng == <<"a">> \o DotPng
AGif == <<"a", ".", "g", "i", "f">>

ObjectNames == {AWebp, BWebp}

\* A .webp file named in upper case, and every name an object is stored or
\* asked for under.
BUpper == <<"b", ".", "W", "E", "B", "P">>

StoredNames == ObjectNames \cup {BUpper}

Formats == {Undefined, FmtPng, FmtWebp}

NoFile == [originalname |-> Undefined, buffer |-> NoBuf]

UploadFiles ==
  {NoFile,
   [originalname |-> APng, buffer |-> Png1],
   [originalname |-> APng, buffer |-> BadBuf],
   [originalname |-> BWebp, buffer |-> Webp1],
   [originalname |-> AGif, buffer |-> Png1]}

\* req.query.fileName and req.headers['x-filename'] of a raw-binary upload.
DirectNames == {<<Undefined, Undefined>>, <<APng, Undefined>>, <<Undefined, APng>>,
                <<Undefined, AGif>>}

DirectBodies == {Png2, BadBuf}

\* Contents of moderators.txt: a comment, a blank line and two names; the
\* same name twice and an indented comment.
ModFile == <<"#", "m", "\n", "\n", "A", "b", "\n", "b", " ">>

ModFileB == <<"a", "b", "\n", "A", "B", "\n", " ", "#", "c">>

ModFiles == {ModFile, ModFileB}

\* req.params.username of a membership check.
Usernames == {<<"A", "b">>, <<" ", "a", "b">>, <<"b">>, <<" ">>}

(***************************************************************************)
(* State.                                                                  *)
(***************************************************************************)
VARIABLES
  env,             \* process.env.API_KEYS
  store,           \* the R2 bucket
  imageCache,      \* the node-cache instance of converted images
  moderatorCache,  \* the node-cache instance of the moderator list
  now,             \* the clock, in seconds
  reqs,            \* the handlers suspended at an await, one per slot
  last,            \* the response sent last, and when
  tomb,            \* per object: has a delete completed with no later upload
  lookups,         \* number of imageCache.get calls made so far
  flushed,         \* has the image cache been flushed
  modFile,         \* the content of moderators.txt
  latest,          \* the reload request that started last, and what it read
  timer            \* the keep-alive timer, and the pings issued so far

vars == <<env, store, imageCache, moderatorCache, now, reqs, last, tomb, lookups, flushed,
          modFile, latest, timer>>

\* A slot: where its handler is suspended and the locals it resumes with
\* (prev is the list a reload deleted from the cache, if any).
Idle == [pc |-> "idle", fileName |-> Empty, format |-> Empty, data |-> NoBuf, afterDel |-> "none",
         handler |-> "none", username |-> Empty, content |-> Empty, prev |-> {}]

NoReload == [slot |-> 0, read |-> "none", content |-> Empty]

\* A response, with the instant it is sent at.
Response(op, status, tag, body) ==
  [op |-> op, status |-> status, tag |-> tag, body |-> body, at |-> now]

\* A cache key made of the format alone.
cacheKey_formatOnly(fileName, format) == <<"_">> \o format

\* `${fileName}_${format}`
cacheKey(fileName, format) == fileName \o <<"_">> \o format

\* A new request takes the first free slot.
Free(p) == reqs[p].pc = "idle" /\ \A q \in Procs : q < p => reqs[q].pc # "idle"

Start(API_KEYS) ==
  /\ env = API_KEYS
  /\ store = {}
  /\ imageCache = NewCache
  /\ moderatorCache = NewCache
  /\ now = 0
  /\ reqs = [p \in Procs |-> Idle]
  /\ last = Response("none", 0, "none", NoBuf)
  /\ tomb = [n \in StoredNames |-> "none"]
  /\ lookups = 0
  /\ flushed = FALSE
  /\ modFile = ModFile
  /\ latest = NoReload
  /\ timer = [phase |-> "timeout", due |-> keepAliveDelay, pings |-> 0, failed |-> 0,
              lastPing |-> 0]

Init == Start(EnvK1K2)

(***************************************************************************)
(* GET /api/v1/image/:fileName and GET /api/image/:fileName               *)
(***************************************************************************)
\* FetchStart that goes to the store without looking into the cache.
FetchStart_noLookup(p, fileName, formatQ) ==
  LET format == Or(formatQ, FmtPng)
  IN /\ Free(p)
     /\ reqs' = [reqs EXCEPT ![p] = [Idle EXCEPT !.pc = "awaitGet", !.fileName = fileName,
                                                 !.format = format,
                                                 !.afterDel = tomb[fileName]]]
     /\ UNCHANGED <<imageCache, lookups, last>>
     /\ UNCHANGED <<env, timer, modFile, latest, store, moderatorCache, now, tomb, flushed>>

\* From the entry of the handler to its first await: the cache lookup for a
\* png request, answered at once on a hit.
FetchStart(p, fileName, formatQ) ==
  LET format == Or(formatQ, FmtPng)
      r == get(imageCache, cacheKey(fileName, format), now)
      suspended == [Idle EXCEPT !.pc = "awaitGet", !.fileName = fileName, !.format = format,
                                !.afterDel = tomb[fileName]]
  IN /\ Free(p)
     /\ IF format = FmtPng
        THEN /\ lookups < MaxLookups
             /\ lookups' = lookups + 1
             /\ imageCache' = r.cache
             /\ IF r.found
                THEN /\ last' = Response("fetch", 200, "HIT", r.v)
                     /\ reqs' = reqs
                ELSE /\ reqs' = [reqs EXCEPT ![p] = suspended]
                     /\ last' = last
        ELSE /\ reqs' = [reqs EXCEPT ![p] = suspended]
             /\ UNCHANGED <<imageCache, lookups, last>>
     /\ UNCHANGED <<env, timer, modFile, latest, store, moderatorCache, now, tomb, flushed>>

\* FetchStoreRead with a catch block that answers 404 for every failure.
FetchStoreRead_always404(p) ==
  LET r == reqs[p]
  IN /\ r.pc = "awaitGet"
     /\ \E ok \in BOOLEAN :
          IF ~ok \/ ~Stored(store, r.fileName)
          THEN /\ last' = Response("fetch", 404, "NoSuchKey", NoBuf)
               /\ reqs' = [reqs EXCEPT ![p] = Idle]
          ELSE /\ reqs' = [reqs EXCEPT ![p].pc = "gotData",
                                       ![p].data = Body(store, r.fileName)]
               /\ last' = last
     /\ UNCHANGED <<env, timer, modFile, latest, store, imageCache, moderatorCache, now, tomb, lookups, flushed>>

\* FetchStoreRead whose stream reports neither an end nor an error when the
\* object is absent.
FetchStoreRead_hangs(p) ==
  LET r == reqs[p]
  IN /\ r.pc = "awaitGet"
     /\ Stored(store, r.fileName)
     /\ \E ok \in BOOLEAN :
          IF ~ok
          THEN /\ last' = Response("fetch", 500, "error", NoBuf)
               /\ reqs' = [reqs EXCEPT ![p] = Idle]
          ELSE /\ reqs' = [reqs EXCEPT ![p].pc = "gotData",
                                       ![p].data = Body(store, r.fileName)]
               /\ last' = last
     /\ UNCHANGED <<env, timer, modFile, latest, store, imageCache, moderatorCache, now, tomb, lookups, flushed>>

\* The store answers GetObject and the body is read: the catch block answers
\* 404 for NoSuchKey and 500 for any other failure.
FetchStoreRead(p) ==
  LET r == reqs[p]
  IN /\ r.pc = "awaitGet"
     /\ \E ok \in BOOLEAN :
          IF ~ok
          THEN /\ last' = Response("fetch", 500, "error", NoBuf)
               /\ reqs' = [reqs EXCEPT ![p] = Idle]
          ELSE IF ~Stored(store, r.fileName)
          THEN /\ last' = Response("fetch", 404, "NoSuchKey", NoBuf)
               /\ reqs' = [reqs EXCEPT ![p] = Idle]
          ELSE /\ reqs' = [reqs EXCEPT ![p].pc = "gotData",
                                       ![p].data = Body(store, r.fileName)]
               /\ last' = last
     /\ UNCHANGED <<env, timer, modFile, latest, store, imageCache, moderatorCache, now, tomb, lookups, flushed>>

\* FetchFinish that sends the conversion without storing it in the cache.
FetchFinish_noCache(p) ==
  LET r == reqs[p]
  IN /\ r.pc = "gotData"
     /\ IF r.format = FmtPng /\ endsWith(r.fileName, DotWebp)
        THEN IF sharpOk(r.data)
             THEN last' = Response("fetch", 200, "MISS", toPng(r.data))
             ELSE last' = Response("fetch", 500, "convertError", NoBuf)
        ELSE last' = Response("fetch", 200, "MISS", r.data)
     /\ imageCache' = imageCache
     /\ reqs' = [reqs EXCEPT ![p] = Idle]
     /\ UNCHANGED <<env, timer, modFile, latest, store, moderatorCache, now, tomb, lookups, flushed>>

\* FetchFinish that caches and sends the stored bytes when the conversion
\* fails.
FetchFinish_cacheRaw(p) ==
  LET r == reqs[p]
  IN /\ r.pc = "gotData"
     /\ IF r.format = FmtPng /\ endsWith(r.fileName, DotWebp)
        THEN /\ imageCache' = set(imageCache, cacheKey(r.fileName, r.format),
                                  IF sharpOk(r.data) THEN toPng(r.data) ELSE r.data, now, stdTTL)
             /\ last' = Response("fetch", 200, "MISS",
                                 IF sharpOk(r.data) THEN toPng(r.data) ELSE r.data)
        ELSE /\ last' = Response("fetch", 200, "MISS", r.data)
             /\ imageCache' = imageCache
     /\ reqs' = [reqs EXCEPT ![p] = Idle]
     /\ UNCHANGED <<env, timer, modFile, latest, store, moderatorCache, now, tomb, lookups, flushed>>

\* From the image buffer to the response: a png request of a .webp object
\* is converted and cached, everything else is sent as stored.
FetchFinish(p) ==
  LET r == reqs[p]
  IN /\ r.pc = "gotData"
     /\ IF r.format = FmtWebp /\ endsWith(r.fileName, DotWebp)
        THEN /\ last' = Response("fetch", 200, "MISS", r.data)
             /\ imageCache' = imageCache
        ELSE IF r.format = FmtPng /\ endsWith(r.fileName, DotWebp)
        THEN IF sharpOk(r.data)
             THEN /\ imageCache' = set(imageCache, cacheKey(r.fileName, r.format),
                                       toPng(r.data), now, stdTTL)
                  /\ last' = Response("fetch", 200, "MISS", toPng(r.data))
             ELSE /\ last' = Response("fetch", 500, "convertError", NoBuf)
                  /\ imageCache' = imageCache
        ELSE /\ last' = Response("fetch", 200, "MISS", r.data)
             /\ imageCache' = imageCache
     /\ reqs' = [reqs EXCEPT ![p] = Idle]
     /\ UNCHANGED <<env, timer, modFile, latest, store, moderatorCache, now, tomb, lookups, flushed>>

(***************************************************************************)
(* POST /api/v1/upload, /api/upload, /api/v1/upload-direct and            *)
(* /api/upload-direct                                                      *)
(***************************************************************************)
\* UploadPlan that stores a file of any other extension as it is.
UploadPlan_anyExtension(file) ==
  LET originalName == file.originalname
      fileExtension == toLowerCase(extname(originalName))
      baseName == basename(originalName, fileExtension)
  IN IF file = NoFile THEN [status |-> 400, key |-> Empty, body |-> NoBuf]
     ELSE IF fileExtension \in {DotPng, DotJpg, DotJpeg}
     THEN IF sharpOk(file.buffer)
          THEN [status |-> 200, key |-> baseName \o DotWebp, body |-> toWebp(file.buffer)]
          ELSE [status |-> 500, key |-> Empty, body |-> NoBuf]
     ELSE [status |-> 200, key |-> originalName, body |-> file.buffer]

\* The name and the bytes the multipart handler stores, or the response it
\* sends instead.
UploadPlan(file) ==
  LET originalName == file.originalname
      fileExtension == toLowerCase(extname(originalName))
      baseName == basename(originalName, fileExtension)
  IN IF file = NoFile THEN [status |-> 400, key |-> Empty, body |-> NoBuf]
     ELSE IF fileExtension \in {DotPng, DotJpg, DotJpeg}
     THEN IF sharpOk(file.buffer)
          THEN [status |-> 200, key |-> baseName \o DotWebp, body |-> toWebp(file.buffer)]
          ELSE [status |-> 500, key |-> Empty, body |-> NoBuf]
     ELSE IF fileExtension # DotWebp
     THEN [status |-> 400, key |-> Empty, body |-> NoBuf]
     ELSE [status |-> 200, key |-> originalName, body |-> file.buffer]

\* The name and the bytes the raw-binary handler stores, or the response it
\* sends instead.
DirectPlan(fileNameQ, fileNameH, buffer) ==
  LET fileName == Or(fileNameQ, fileNameH)
      baseName == basename(fileName, DotPng)
  IN IF ~Truthy(fileName) THEN [status |-> 400, key |-> Empty, body |-> NoBuf]
     ELSE IF ~endsWith(toLowerCase(fileName), DotPng)
     THEN [status |-> 400, key |-> Empty, body |-> NoBuf]
     ELSE IF sharpOk(buffer)
     THEN [status |-> 200, key |-> baseName \o DotWebp, body |-> toWebp(buffer)]
     ELSE [status |-> 500, key |-> Empty, body |-> NoBuf]

\* The middleware chain, the handler up to `await r2Client.send(PutObject)`,
\* and the store applying or failing the command.
Upload(p, chain, plan) ==
  /\ Free(p)
  /\ IF chain # <<CallNext>>
     THEN /\ last' = Response("upload", chain[1].status, chain[1].code, NoBuf)
          /\ UNCHANGED <<store, reqs, tomb>>
     ELSE IF plan.status # 200
     THEN /\ last' = Response("upload", plan.status, "error", NoBuf)
          /\ UNCHANGED <<store, reqs, tomb>>
     ELSE \E ok \in BOOLEAN :
            IF ok
            THEN /\ store' = PutObject(store, plan.key, plan.body)
                 /\ reqs' = [q \in Procs |->
                              IF q = p
                              THEN [Idle EXCEPT !.pc = "putDone", !.fileName = plan.key]
                              ELSE IF reqs[q].fileName = plan.key
                              THEN [reqs[q] EXCEPT !.afterDel = "none"]
                              ELSE reqs[q]]
                 /\ tomb' = [n \in DOMAIN tomb |-> IF n = plan.key THEN "none" ELSE tomb[n]]
                 /\ last' = last
            ELSE /\ last' = Response("upload", 500, "error", NoBuf)
                 /\ UNCHANGED <<store, reqs, tomb>>
  /\ UNCHANGED <<env, timer, modFile, latest, imageCache, moderatorCache, now, lookups, flushed>>

UploadStart(p, legacy, apiKey, file) ==
  Upload(p, Chain(legacy, apiKey, env), UploadPlan(file))

UploadDirectStart(p, legacy, apiKey, fileNameQ, fileNameH, buffer) ==
  Upload(p, Chain(legacy, apiKey, env), DirectPlan(fileNameQ, fileNameH, buffer))

\* After the PutObject: imageCache.del(finalFileName) and the response.
UploadFinish(p) ==
  LET r == reqs[p]
  IN /\ r.pc = "putDone"
     /\ imageCache' = del(imageCache, r.fileName)
     /\ last' = Response("upload", 200, "ok", NoBuf)
     /\ reqs' = [reqs EXCEPT ![p] = Idle]
     /\ UNCHANGED <<env, timer, modFile, latest, store, moderatorCache, now, tomb, lookups, flushed>>

(***************************************************************************)
(* DELETE /api/v1/image/:fileName and DELETE /api/image/:fileName         *)
(***************************************************************************)
\* The middleware chain and the store applying or failing DeleteObject.
DeleteStart(p, legacy, apiKey, fileName) ==
  LET chain == Chain(legacy, apiKey, env)
  IN /\ Free(p)
     /\ IF chain # <<CallNext>>
        THEN /\ last' = Response("delete", chain[1].status, chain[1].code, NoBuf)
             /\ UNCHANGED <<store, reqs>>
        ELSE \E ok \in BOOLEAN :
               IF ok
               THEN /\ store' = DeleteObject(store, fileName)
                    /\ reqs' = [reqs EXCEPT ![p] = [Idle EXCEPT !.pc = "delDone",
                                                                !.fileName = fileName]]
                    /\ last' = last
               ELSE /\ last' = Response("delete", 500, "error", NoBuf)
                    /\ UNCHANGED <<store, reqs>>
     /\ UNCHANGED <<env, timer, modFile, latest, imageCache, moderatorCache, now, tomb, lookups, flushed>>

\* A fetch of the object is between its lookup and its response.
FetchInFlight(fileName) ==
  \E q \in Procs : reqs[q].pc \in {"awaitGet", "gotData"} /\ reqs[q].fileName = fileName

\* DeleteFinish deleting the key the upload handlers delete.
DeleteFinish_objectKey(p) ==
  LET r == reqs[p]
  IN /\ r.pc = "delDone"
     /\ imageCache' = del(imageCache, r.fileName)
     /\ last' = Response("delete", 200, "ok", NoBuf)
     /\ reqs' = [reqs EXCEPT ![p] = Idle]
     /\ tomb' = [tomb EXCEPT ![r.fileName] =
                   IF Stored(store, r.fileName) THEN "none"
                   ELSE IF FetchInFlight(r.fileName) THEN "deleted"
                   ELSE "quiet"]
     /\ UNCHANGED <<env, timer, modFile, latest, store, moderatorCache, now, lookups, flushed>>

\* After the DeleteObject: both cache keys are deleted and the response sent.
DeleteFinish(p) ==
  LET r == reqs[p]
  IN /\ r.pc = "delDone"
     /\ imageCache' = del(del(imageCache, cacheKey(r.fileName, FmtPng)),
                          cacheKey(r.fileName, FmtWebp))
     /\ last' = Response("delete", 200, "ok", NoBuf)
     /\ reqs' = [reqs EXCEPT ![p] = Idle]
     /\ tomb' = [tomb EXCEPT ![r.fileName] =
                   IF Stored(store, r.fileName) THEN "none"
                   ELSE IF FetchInFlight(r.fileName) THEN "deleted"
                   ELSE "quiet"]
     /\ UNCHANGED <<env, timer, modFile, latest, store, moderatorCache, now, lookups, flushed>>

(***************************************************************************)
(* The cache endpoints.                                                    *)
(***************************************************************************)
\* CacheClear that answers without flushing.
CacheClear_noFlush(legacy, apiKey) ==
  LET chain == Chain(legacy, apiKey, env)
  IN /\ IF chain # <<CallNext>>
        THEN /\ last' = Response("clear", chain[1].status, chain[1].code, NoBuf)
             /\ UNCHANGED <<imageCache, flushed>>
        ELSE /\ imageCache' = imageCache
             /\ flushed' = TRUE
             /\ last' = Response("clear", 200, "ok", NoBuf)
     /\ UNCHANGED <<env, timer, modFile, latest, store, moderatorCache, now, reqs, tomb, lookups>>

\* POST /api/v1/cache/clear and POST /api/cache/clear
CacheClear(legacy, apiKey) ==
  LET chain == Chain(legacy, apiKey, env)
  IN /\ IF chain # <<CallNext>>
        THEN /\ last' = Response("clear", chain[1].status, chain[1].code, NoBuf)
             /\ UNCHANGED <<imageCache, flushed>>
        ELSE /\ imageCache' = flushAll(imageCache)
             /\ flushed' = TRUE
             /\ last' = Response("clear", 200, "ok", NoBuf)
     /\ UNCHANGED <<env, timer, modFile, latest, store, moderatorCache, now, reqs, tomb, lookups>>

\* x.toFixed(2) of the quotient a / b, in hundredths: the nearest hundredth,
\* a tie rounded up.
toFixed2(a, b) == (2 * 100 * a + b) \div (2 * b)

\* hitRate that reports the fraction of hits, not multiplied by 100.
hitRate_fraction(stats) ==
  IF stats.hits > 0 THEN toFixed2(stats.hits, stats.hits + stats.misses) ELSE 0

\* stats.hits > 0 ? ((stats.hits / (stats.hits + stats.misses)) * 100).toFixed(2) + '%' : '0%'
\* in hundredths of a percent.
hitRate(stats) ==
  IF stats.hits > 0 THEN toFixed2(stats.hits * 100, stats.hits + stats.misses) ELSE 0

\* GET /api/v1/cache/stats and GET /api/cache/stats: the response carries
\* the hit rate of getStats(imageCache) as it is in this state.
CacheStats ==
  /\ last' = Response("stats", 200, "ok", [fmt |-> "json", px |-> hitRate(getStats(imageCache))])
  /\ UNCHANGED <<env, timer, modFile, latest, store, imageCache, moderatorCache, now, reqs, tomb, lookups, flushed>>

(***************************************************************************)
(* The moderator routes: loadModerators, isModerator and the check, list  *)
(* and reload handlers.                                                    *)
(***************************************************************************)
\* isModerator without the toLowerCase.
isModerator_caseSensitive(moderators, username) == includes(moderators, username)

\* moderators.includes(username.toLowerCase())
isModerator(moderators, username) == includes(moderators, toLowerCase(username))

\* A JSON response carrying a count.
Json(op, status, tag, count) == Response(op, status, tag, [fmt |-> "json", px |-> count])

\* The response a moderator handler sends once loadModerators has returned.
Answer(handler, username, moderators) ==
  IF handler = "check"
  THEN Response("check", 200,
                IF isModerator(moderators, username) THEN "moderator" ELSE "notModerator", NoBuf)
  ELSE Json(handler, 200, "ok", Len(moderators))

\* loadModerators that reads the file whether or not a list is cached.
Load_alwaysRead(p, handler, username, cache, deleted) ==
  LET r == get(cache, ModKey, now)
  IN /\ moderatorCache' = r.cache
     /\ reqs' = [reqs EXCEPT ![p] = [Idle EXCEPT !.pc = "awaitRead",
                                                 !.handler = handler,
                                                 !.username = username,
                                                 !.prev = deleted]]
     /\ last' = last

\* loadModerators up to `await fs.readFile`, called by a handler on the
\* moderator cache as the handler left it: a cached list is returned and
\* answered at once, otherwise the handler is suspended at the read.
Load(p, handler, username, cache, deleted) ==
  LET r == get(cache, ModKey, now)
  IN /\ moderatorCache' = r.cache
     /\ IF r.found
        THEN /\ last' = Answer(handler, username, r.v)
             /\ reqs' = reqs
        ELSE /\ reqs' = [reqs EXCEPT ![p] = [Idle EXCEPT !.pc = "awaitRead",
                                                         !.handler = handler,
                                                         !.username = username,
                                                         !.prev = deleted]]
             /\ last' = last

\* GET /api/v1/moderator/check/:username and GET /api/moderator/check/:username
ModCheckStart(p, username) ==
  /\ Free(p)
  /\ IF ~Truthy(username) \/ trim(username) = Empty
     THEN /\ last' = Response("check", 400, "error", NoBuf)
          /\ UNCHANGED <<moderatorCache, reqs>>
     ELSE Load(p, "check", username, moderatorCache, {})
  /\ UNCHANGED <<env, timer, modFile, latest, store, imageCache, now, tomb, lookups, flushed>>

\* GET /api/v1/moderators and GET /api/moderators
ModListStart(p) ==
  /\ Free(p)
  /\ Load(p, "list", Empty, moderatorCache, {})
  /\ UNCHANGED <<env, timer, modFile, latest, store, imageCache, now, tomb, lookups, flushed>>

\* POST /api/v1/moderators/reload and POST /api/moderators/reload: the
\* middleware chain, moderatorCache.del, and loadModerators up to the read.
ReloadStart(p, legacy, apiKey) ==
  LET chain == Chain(legacy, apiKey, env)
      cached == {e.v : e \in {x \in moderatorCache.data : x.k = ModKey}}
  IN /\ Free(p)
     /\ IF chain # <<CallNext>>
        THEN /\ last' = Response("reload", chain[1].status, chain[1].code, NoBuf)
             /\ UNCHANGED <<moderatorCache, reqs, latest>>
        ELSE /\ Load(p, "reload", Empty, del(moderatorCache, ModKey), cached)
             /\ latest' = [slot |-> p, read |-> "pending", content |-> Empty]
     /\ UNCHANGED <<env, timer, modFile, store, imageCache, now, tomb, lookups, flushed>>

\* fs.readFile completes, with the content the file has now or with an error.
LoadRead(p) ==
  LET r == reqs[p]
      mine == r.handler = "reload" /\ latest.slot = p /\ latest.read = "pending"
  IN /\ r.pc = "awaitRead"
     /\ \E ok \in BOOLEAN :
          IF ok
          THEN /\ reqs' = [reqs EXCEPT ![p].pc = "readDone", ![p].content = modFile]
               /\ latest' = IF mine THEN [latest EXCEPT !.read = "done", !.content = modFile]
                            ELSE latest
          ELSE /\ reqs' = [reqs EXCEPT ![p].pc = "readFailed"]
               /\ latest' = IF mine THEN [latest EXCEPT !.read = "failed"] ELSE latest
     /\ UNCHANGED <<env, timer, modFile, store, imageCache, moderatorCache, now, last, tomb, lookups,
                    flushed>>

\* LoadFinish with a catch block that caches the empty list it returns.
LoadFinish_cacheEmpty(p) ==
  LET r == reqs[p]
      moderators == IF r.pc = "readDone" THEN parseModerators(r.content) ELSE << >>
  IN /\ r.pc \in {"readDone", "readFailed"}
     /\ moderatorCache' = set(moderatorCache, ModKey, moderators, now, modTTL)
     /\ last' = Answer(r.handler, r.username, moderators)
     /\ reqs' = [reqs EXCEPT ![p] = Idle]
     /\ UNCHANGED <<env, timer, modFile, latest, store, imageCache, now, tomb, lookups, flushed>>

\* loadModerators after the read and the handler's response: the content is
\* parsed and cached, or the catch block returns an empty list.
LoadFinish(p) ==
  LET r == reqs[p]
      moderators == IF r.pc = "readDone" THEN parseModerators(r.content) ELSE << >>
  IN /\ r.pc \in {"readDone", "readFailed"}
     /\ moderatorCache' = IF r.pc = "readDone"
                          THEN set(moderatorCache, ModKey, moderators, now, modTTL)
                          ELSE moderatorCache
     /\ last' = Answer(r.handler, r.username, moderators)
     /\ reqs' = [reqs EXCEPT ![p] = Idle]
     /\ UNCHANGED <<env, timer, modFile, latest, store, imageCache, now, tomb, lookups, flushed>>

\* moderators.txt is edited.
FileChange ==
  /\ \E f \in ModFiles \ {modFile} : modFile' = f
  /\ UNCHANGED <<env, timer, latest, store, imageCache, moderatorCache, now, reqs, last, tomb, lookups,
                 flushed>>

\* The number of loadModerators calls made so far.
Loads == moderatorCache.hits + moderatorCache.misses

(***************************************************************************)
(* GET /api/v1/images, GET /api/images and GET /health                    *)
(***************************************************************************)
\* From the entry of the handler to `await r2Client.send(ListObjectsV2)`.
ListStart(p) ==
  /\ Free(p)
  /\ reqs' = [reqs EXCEPT ![p] = [Idle EXCEPT !.pc = "awaitList"]]
  /\ UNCHANGED <<env, timer, modFile, latest, store, imageCache, moderatorCache, now, last, tomb,
                 lookups, flushed>>

\* The store answers the listing, or fails: the count of the objects or 500.
ListFinish(p) ==
  /\ reqs[p].pc = "awaitList"
  /\ \E ok \in BOOLEAN :
       last' = IF ok THEN Json("images", 200, "ok", Cardinality(store))
               ELSE Response("images", 500, "error", NoBuf)
  /\ reqs' = [reqs EXCEPT ![p] = Idle]
  /\ UNCHANGED <<env, timer, modFile, latest, store, imageCache, moderatorCache, now, tomb, lookups,
                 flushed>>

\* GET /health: the response carries imageCache.getStats().keys.
\* Health that looks a key up in the image cache.
Health_lookup ==
  /\ last' = Json("health", 200, "ok", getStats(imageCache).keys)
  /\ imageCache' = get(imageCache, cacheKey(AWebp, FmtPng), now).cache
  /\ UNCHANGED <<env, timer, modFile, latest, store, moderatorCache, now, reqs, tomb,
                 lookups, flushed>>

\* GET /health: reports the number of keys of the image cache.
Health ==
  /\ last' = Json("health", 200, "ok", getStats(imageCache).keys)
  /\ UNCHANGED <<env, timer, modFile, latest, store, imageCache, moderatorCache, now, reqs, tomb,
                 lookups, flushed>>

(***************************************************************************)
(* The keep-alive: app.listen arms a timeout whose callback, keepAlive,   *)
(* arms the interval that issues the pings.                               *)
(***************************************************************************)
\* The timeout armed by app.listen fires: keepAlive calls setInterval.
KeepAliveStart ==
  /\ timer.phase = "timeout"
  /\ now = timer.due
  /\ timer' = [timer EXCEPT !.phase = "interval", !.due = now + keepAliveInterval]
  /\ UNCHANGED <<env, modFile, latest, store, imageCache, moderatorCache, now, reqs, last, tomb,
                 lookups, flushed>>

\* The interval fires: https.get of /health is issued; it succeeds or its
\* error is logged, and the interval stays armed either way.
KeepAlivePing ==
  /\ timer.phase = "interval"
  /\ now = timer.due
  /\ \E ok \in BOOLEAN :
       timer' = [timer EXCEPT !.due = now + keepAliveInterval,
                              !.pings = timer.pings + 1,
                              !.failed = IF ok THEN timer.failed ELSE timer.failed + 1,
                              !.lastPing = now]
  /\ UNCHANGED <<env, modFile, latest, store, imageCache, moderatorCache, now, reqs, last, tomb,
                 lookups, flushed>>

(***************************************************************************)
(* Time.                                                                   *)
(***************************************************************************)
Elapse(step, max) ==
  /\ now + step <= max
  /\ now' = now + step
  /\ UNCHANGED <<env, timer, modFile, latest, store, imageCache, moderatorCache, reqs, last, tomb, lookups, flushed>>

Tick == Elapse(TickStep, MaxNow)

HalfDay == Elapse(DayStep, MaxDay)

\* Time passes up to the instant the keep-alive timer is due, or by a step
\* if that comes first: a due timer fires before time passes on.
KeepTick ==
  \E step \in {KeepStep, timer.due - now} :
    /\ step > 0
    /\ now + step <= timer.due
    /\ Elapse(step, MaxUptime)

\* The timer of the image cache (checkperiod) fires.
CheckData ==
  /\ \E e \in imageCache.data : expired(e, now)
  /\ imageCache' = checkData(imageCache, now)
  /\ UNCHANGED <<env, timer, modFile, latest, store, moderatorCache, now, reqs, last, tomb, lookups, flushed>>

(***************************************************************************)
(* Spec: the image routes, concurrently, at one instant.                  *)
(***************************************************************************)
\* The callers the image routes are exercised with: a legacy request, a v1
\* request with a configured key and one with a key that is not configured.
ImageCallers ==
  {LegacyCaller, [legacy |-> FALSE, apiKey |-> K1], [legacy |-> FALSE, apiKey |-> KBad]}

Next ==
  \/ \E p \in Procs, n \in ObjectNames, f \in Formats : FetchStart(p, n, f)
  \/ \E p \in Procs : FetchStoreRead(p)
  \/ \E p \in Procs : FetchFinish(p)
  \/ \E p \in Procs, c \in ImageCallers, f \in UploadFiles :
       UploadStart(p, c.legacy, c.apiKey, f)
  \/ \E p \in Procs, c \in ImageCallers, n \in DirectNames, b \in DirectBodies :
       UploadDirectStart(p, c.legacy, c.apiKey, n[1], n[2], b)
  \/ \E p \in Procs : UploadFinish(p)
  \/ \E p \in Procs, c \in ImageCallers, n \in ObjectNames :
       DeleteStart(p, c.legacy, c.apiKey, n)
  \/ \E p \in Procs : DeleteFinish(p)

Spec == Init /\ [][Next]_vars

(***************************************************************************)
(* SpecCache: the image cache over time, with the cache endpoints.        *)
(***************************************************************************)
CacheFiles ==
  {[originalname |-> APng, buffer |-> Png1], [originalname |-> BWebp, buffer |-> Webp1]}

NextCache ==
  \/ \E p \in Procs, n \in ObjectNames, f \in {Undefined, FmtPng} : FetchStart(p, n, f)
  \/ \E p \in Procs : FetchStoreRead(p)
  \/ \E p \in Procs : FetchFinish(p)
  \/ \E p \in Procs, f \in CacheFiles : UploadStart(p, TRUE, Undefined, f)
  \/ \E p \in Procs : UploadFinish(p)
  \/ \E c \in ImageCallers : CacheClear(c.legacy, c.apiKey)
  \/ CacheStats
  \/ Tick
  \/ CheckData

SpecCache == Init /\ [][NextCache]_vars

(***************************************************************************)
(* SpecAuth: the protected v1 routes, one request at a time, under every  *)
(* configuration of API_KEYS.                                              *)
(***************************************************************************)
InitAuth == \E e \in EnvChoices : Start(e)

\* The v1 requests of this specification all concern the object a.webp.
UploadRequest(p, k) ==
  \E f \in {NoFile, [originalname |-> APng, buffer |-> Png1]} : UploadStart(p, FALSE, k, f)

UploadDirectRequest(p, k) ==
  \E n \in {<<Undefined, Undefined>>, <<Undefined, APng>>} :
    UploadDirectStart(p, FALSE, k, n[1], n[2], Png1)

DeleteRequest(p, k) == DeleteStart(p, FALSE, k, AWebp)

NextAuth ==
  \/ FetchStart(1, AWebp, FmtPng)
  \/ FetchStoreRead(1)
  \/ FetchFinish(1)
  \/ \E k \in ApiKeyHeaders : UploadRequest(1, k)
  \/ \E k \in ApiKeyHeaders : UploadDirectRequest(1, k)
  \/ UploadFinish(1)
  \/ \E k \in ApiKeyHeaders : DeleteRequest(1, k)
  \/ DeleteFinish(1)
  \/ \E k \in ApiKeyHeaders : CacheClear(FALSE, k)
  \/ \E k \in ApiKeyHeaders : moderatorCache.misses < MaxReloads /\ ReloadStart(1, FALSE, k)
  \/ LoadRead(1)
  \/ LoadFinish(1)

SpecAuth == InitAuth /\ [][NextAuth]_vars

(***************************************************************************)
(* SpecSurface: every route, legacy and v1, one request at a time, with   *)
(* API_KEYS unset or holding two keys.                                     *)
(***************************************************************************)
InitSurface == \E e \in {Undefined, EnvK1K2} : Start(e)

SurfaceHeaders == {Undefined, K1, KBad}

SurfaceCallers == {LegacyCaller} \cup {[legacy |-> FALSE, apiKey |-> k] : k \in SurfaceHeaders}

\* The requests of this specification all concern the object a.webp.
SurfaceUpload(legacy, k) ==
  \E f \in {NoFile, [originalname |-> APng, buffer |-> Png1]} : UploadStart(1, legacy, k, f)

SurfaceDirect(legacy, k) == UploadDirectStart(1, legacy, k, Undefined, APng, Png1)

SurfaceDelete(legacy, k) == DeleteStart(1, legacy, k, AWebp)

\* A request to a key-protected operation, over its legacy or its v1 route.
SurfaceProtected(legacy, k) ==
  \/ SurfaceUpload(legacy, k)
  \/ SurfaceDirect(legacy, k)
  \/ SurfaceDelete(legacy, k)
  \/ CacheClear(legacy, k)
  \/ ReloadStart(1, legacy, k)

\* A step of a public route: fetch, statistics, moderator list.
SurfacePublic ==
  \/ FetchStart(1, AWebp, FmtPng)
  \/ FetchStoreRead(1)
  \/ FetchFinish(1)
  \/ CacheStats
  \/ ModListStart(1)
  \/ LoadRead(1)
  \/ LoadFinish(1)

NextSurface ==
  \/ FetchStart(1, AWebp, FmtPng)
  \/ FetchStoreRead(1)
  \/ FetchFinish(1)
  \/ \E c \in SurfaceCallers : SurfaceUpload(c.legacy, c.apiKey)
  \/ \E c \in SurfaceCallers : SurfaceDirect(c.legacy, c.apiKey)
  \/ UploadFinish(1)
  \/ \E c \in SurfaceCallers : SurfaceDelete(c.legacy, c.apiKey)
  \/ DeleteFinish(1)
  \/ \E c \in SurfaceCallers : CacheClear(c.legacy, c.apiKey)
  \/ CacheStats
  \/ \E c \in SurfaceCallers :
       moderatorCache.misses < MaxReloads /\ ReloadStart(1, c.legacy, c.apiKey)
  \/ Loads < MaxReloads /\ ModListStart(1)
  \/ LoadRead(1)
  \/ LoadFinish(1)

SpecSurface == InitSurface /\ [][NextSurface]_vars

(***************************************************************************)
(* SpecMod: the moderator routes, concurrently, over days, with the file  *)
(* edited between requests.                                                *)
(***************************************************************************)
NextMod ==
  \/ \E p \in Procs, u \in Usernames : Loads < MaxLoads /\ ModCheckStart(p, u)
  \/ \E p \in Procs : Loads < MaxLoads /\ ModListStart(p)
  \/ \E p \in Procs, c \in {LegacyCaller, [legacy |-> FALSE, apiKey |-> K1]} :
       Loads < MaxLoads /\ ReloadStart(p, c.legacy, c.apiKey)
  \/ \E p \in Procs : LoadRead(p)
  \/ \E p \in Procs : LoadFinish(p)
  \/ FileChange
  \/ HalfDay

SpecMod == Init /\ [][NextMod]_vars

(***************************************************************************)
(* SpecUpload: uploads of every kind, valid and not, over the legacy and  *)
(* the v1 routes, and fetches of what they stored.                         *)
(***************************************************************************)
\* The multipart uploads, and a .webp file whose bytes are no image: it is
\* stored as it is.
AllFiles == UploadFiles \cup {[originalname |-> BWebp, buffer |-> BadBuf]}

UploadCallers == {LegacyCaller, [legacy |-> FALSE, apiKey |-> K1]}

NextUpload ==
  \/ \E p \in Procs, c \in UploadCallers, f \in AllFiles : UploadStart(p, c.legacy, c.apiKey, f)
  \/ \E p \in Procs, c \in UploadCallers, n \in DirectNames, b \in DirectBodies :
       UploadDirectStart(p, c.legacy, c.apiKey, n[1], n[2], b)
  \/ \E p \in Procs : UploadFinish(p)
  \/ \E p \in Procs, n \in ObjectNames, f \in Formats : FetchStart(p, n, f)
  \/ \E p \in Procs : FetchStoreRead(p)
  \/ \E p \in Procs : FetchFinish(p)

SpecUpload == Init /\ [][NextUpload]_vars

(***************************************************************************)
(* SpecFetch: concurrent fetches of every name in every format, with      *)
(* uploads that give each object bytes no other object has.               *)
(***************************************************************************)
Webp3 == [fmt |-> "webp", px |-> 3]

\* The pictures each object is uploaded with.
Pictures(n) == IF n = AWebp THEN {1, 2} ELSE {3}

FetchFiles ==
  {[originalname |-> APng, buffer |-> Png1],
   [originalname |-> APng, buffer |-> Png2],
   [originalname |-> BWebp, buffer |-> Webp3],
   [originalname |-> BWebp, buffer |-> BadBuf],
   [originalname |-> BUpper, buffer |-> Webp3]}

NextFetch ==
  \/ \E p \in Procs, n \in StoredNames, f \in Formats : FetchStart(p, n, f)
  \/ \E p \in Procs : FetchStoreRead(p)
  \/ \E p \in Procs : FetchFinish(p)
  \/ \E p \in Procs, f \in FetchFiles : UploadStart(p, TRUE, Undefined, f)
  \/ \E p \in Procs : UploadFinish(p)

SpecFetch == Init /\ [][NextFetch]_vars

(***************************************************************************)
(* SpecLive: fetches and uploads, with a store and a converter that        *)
(* always eventually answer: a handler suspended at an await is resumed.  *)
(***************************************************************************)
LiveFiles ==
  {[originalname |-> APng, buffer |-> Png1], [originalname |-> BWebp, buffer |-> BadBuf]}

NextLive ==
  \/ \E p \in Procs, n \in ObjectNames, f \in Formats : FetchStart(p, n, f)
  \/ \E p \in Procs : FetchStoreRead(p)
  \/ \E p \in Procs : FetchFinish(p)
  \/ \E p \in Procs, f \in LiveFiles : UploadStart(p, TRUE, Undefined, f)
  \/ \E p \in Procs : UploadFinish(p)

Responsive ==
  \A p \in Procs :
    /\ WF_vars(FetchStoreRead(p))
    /\ WF_vars(FetchFinish(p))
    /\ WF_vars(UploadFinish(p))

SpecLive == Init /\ [][NextLive]_vars /\ Responsive

(***************************************************************************)
(* SpecKeep: the keep-alive timers over two hours, with health requests.  *)
(***************************************************************************)
NextKeep ==
  \/ KeepAliveStart
  \/ KeepAlivePing
  \/ KeepTick
  \/ Health

SpecKeep == Init /\ [][NextKeep]_vars

(***************************************************************************)
(* SpecHit: concurrent png fetches of one object over time, with uploads  *)
(* that change its bytes, deletes, cache clears and expiry.               *)
(***************************************************************************)
HitFiles == {[originalname |-> APng, buffer |-> Png1], [originalname |-> APng, buffer |-> Png2]}

NextHit ==
  \/ \E p \in Procs : FetchStart(p, AWebp, FmtPng)
  \/ \E p \in Procs : FetchStoreRead(p)
  \/ \E p \in Procs : FetchFinish(p)
  \/ \E p \in Procs, f \in HitFiles : UploadStart(p, TRUE, Undefined, f)
  \/ \E p \in Procs : UploadFinish(p)
  \/ \E p \in Procs : DeleteStart(p, TRUE, Undefined, AWebp)
  \/ \E p \in Procs : DeleteFinish(p)
  \/ CacheClear(TRUE, Undefined)
  \/ Tick
  \/ CheckData

SpecHit == Init /\ [][NextHit]_vars

(***************************************************************************)
(* SpecRead: the requests that only read (list, statistics, health,       *)
(* moderator check and list) among fetches, uploads and cache clears.     *)
(***************************************************************************)
ReadFile == [originalname |-> APng, buffer |-> Png1]

NextRead ==
  \/ \E p \in Procs : FetchStart(p, AWebp, FmtPng)
  \/ \E p \in Procs : FetchStoreRead(p)
  \/ \E p \in Procs : FetchFinish(p)
  \/ \E p \in Procs : UploadStart(p, TRUE, Undefined, ReadFile)
  \/ \E p \in Procs : UploadFinish(p)
  \/ CacheClear(TRUE, Undefined)
  \/ CacheStats
  \/ Health
  \/ \E p \in Procs : ListStart(p)
  \/ \E p \in Procs : ListFinish(p)
  \/ \E p \in Procs : Loads < MaxReloads /\ ModCheckStart(p, <<"A", "b">>)
  \/ \E p \in Procs : Loads < MaxReloads /\ ModListStart(p)
  \/ \E p \in Procs : LoadRead(p)
  \/ \E p \in Procs : LoadFinish(p)

SpecRead == Init /\ [][NextRead]_vars

(***************************************************************************)
(* SpecPaths: one request at a time through every handler and each of its *)
(* control paths, with and without configured keys.                        *)
(***************************************************************************)
PathFiles ==
  {NoFile,
   [originalname |-> APng, buffer |-> Png1],
   [originalname |-> APng, buffer |-> BadBuf],
   [originalname |-> <<"a", ".", "g", "i", "f">>, buffer |-> Png1]}

\* The file name and the body of the raw-binary uploads.
PathDirects ==
  {[fileName |-> Undefined, buffer |-> Png2],
   [fileName |-> AWebp, buffer |-> Png2],
   [fileName |-> APng, buffer |-> Png2],
   [fileName |-> APng, buffer |-> BadBuf]}

NextPaths ==
  \/ \E f \in {FmtPng, FmtWebp} : FetchStart(1, AWebp, f)
  \/ FetchStoreRead(1)
  \/ FetchFinish(1)
  \/ \E c \in SurfaceCallers, f \in PathFiles : UploadStart(1, c.legacy, c.apiKey, f)
  \/ \E c \in SurfaceCallers, d \in PathDirects :
       UploadDirectStart(1, c.legacy, c.apiKey, d.fileName, Undefined, d.buffer)
  \/ UploadFinish(1)
  \/ \E c \in SurfaceCallers : DeleteStart(1, c.legacy, c.apiKey, AWebp)
  \/ DeleteFinish(1)
  \/ \E c \in SurfaceCallers : Free(1) /\ CacheClear(c.legacy, c.apiKey)
  \/ Free(1) /\ CacheStats
  \/ \E u \in {<<"A", "b">>, <<" ">>} : Loads < MaxReloads /\ ModCheckStart(1, u)
  \/ Loads < MaxReloads /\ ModListStart(1)
  \/ \E c \in SurfaceCallers : Loads < MaxReloads /\ ReloadStart(1, c.legacy, c.apiKey)
  \/ LoadRead(1)
  \/ LoadFinish(1)

SpecPaths == InitSurface /\ [][NextPaths]_vars

(***************************************************************************)
(* Properties of the image routes (Spec).                                 *)
(***************************************************************************)
\* The cache entries derived from an object, in any format.
Derived(c, fileName) ==
  {e \in c.data : \E f \in {FmtPng, FmtWebp} : e.k = cacheKey(fileName, f)}

\* C1: when an upload that stored an object under key K completes, the image
\* cache holds no entry derived from K.
C1_UploadInvalidates ==
  [][\A p \in Procs : UploadFinish(p) => Derived(imageCache', reqs[p].fileName) = {}]_vars

\* C2: when a delete of K completes, every cache entry derived from K is
\* absent and every other entry is exactly as it was.
C2_DeleteInvalidates ==
  [][\A p \in Procs :
       DeleteFinish(p) =>
         /\ Derived(imageCache', reqs[p].fileName) = {}
         /\ imageCache'.data \ Derived(imageCache', reqs[p].fileName)
              = imageCache.data \ Derived(imageCache, reqs[p].fileName)]_vars

\* A delete has completed, the entry of the other object is still cached and
\* both lookups made so far missed.
C2_Witness ==
  /\ last = Response("delete", 200, "ok", NoBuf)
  /\ tomb[AWebp] # "none"
  /\ Derived(imageCache, AWebp) = {}
  /\ Derived(imageCache, BWebp) # {}
  /\ imageCache.misses = 2

\* The responses a fetch may give when the object is gone: none with the
\* object's bytes.  `gone' says which completed deletes count.
NoBytesAfterDelete(gone) ==
  /\ \A p \in Procs, n \in ObjectNames, f \in Formats :
       (FetchStart(p, n, f) /\ tomb[n] \in gone) => imageCache'.hits = imageCache.hits
  /\ \A p \in Procs :
       (FetchStoreRead(p) /\ reqs[p].afterDel \in gone) =>
         reqs'[p].pc = "idle" /\ last'.status \in {404, 500}
  /\ \A p \in Procs : FetchFinish(p) => reqs[p].afterDel \notin gone

\* C3 as stated: a fetch of K that begins after a delete of K has completed,
\* with no later upload of K, is answered 404 (500 when the store fails) and
\* never with bytes of the deleted object.
C3_FetchAfterDelete == [][NoBytesAfterDelete({"deleted", "quiet"})]_vars

\* C3 amended: the same, for a delete that completed while no fetch of K
\* was in flight.
C3_FetchAfterQuietDelete == [][NoBytesAfterDelete({"quiet"})]_vars

\* A fetch was answered 404, and a fetch that began after a delete of its
\* object completed is on its way to the store, no lookup having hit.
C3_Witness ==
  /\ last = Response("fetch", 404, "NoSuchKey", NoBuf)
  /\ \E p \in Procs : reqs[p].pc = "awaitGet" /\ reqs[p].afterDel = "quiet"
  /\ \A n \in ObjectNames : tomb[n] = "quiet"
  /\ imageCache.hits = 0

(***************************************************************************)
(* Properties of the image cache over time (SpecCache).                   *)
(***************************************************************************)
\* A png fetch of the object starts in this step.
PngLookup(p, n) == \E f \in {Undefined, FmtPng} : FetchStart(p, n, f)

\* The step answers X-Cache: HIT with the bytes of entry e.
AnswersHit(e) ==
  /\ last' = Response("fetch", 200, "HIT", e.v)
  /\ imageCache'.hits = imageCache.hits + 1
  /\ imageCache'.misses = imageCache.misses
  /\ reqs' = reqs

\* The step finds nothing, counts a miss and goes on to the store.
CountsMiss(p, n) ==
  /\ imageCache'.misses = imageCache.misses + 1
  /\ imageCache'.hits = imageCache.hits
  /\ Derived(imageCache', n) = {}
  /\ reqs'[p].pc = "awaitGet"
  /\ last' = last

\* The age of an entry: it was inserted stdTTL before its expiry instant.
Age(e) == now - (e.t - stdTTL)

\* C4 as stated: a lookup of an entry younger than the TTL returns its bytes,
\* a lookup at age TTL or more returns absent and counts a miss.
C4_TtlExclusive ==
  [][\A p \in Procs, n \in ObjectNames :
       (PngLookup(p, n) /\ Derived(imageCache, n) # {}) =>
         LET e == Entry(imageCache, cacheKey(n, FmtPng))
         IN IF Age(e) < stdTTL THEN AnswersHit(e) ELSE CountsMiss(p, n)]_vars

\* C4 amended: a lookup of an entry of age TTL or less returns its bytes, a
\* lookup at an age above the TTL returns absent and counts a miss.
C4_TtlInclusive ==
  [][\A p \in Procs, n \in ObjectNames :
       (PngLookup(p, n) /\ Derived(imageCache, n) # {}) =>
         LET e == Entry(imageCache, cacheKey(n, FmtPng))
         IN IF Age(e) <= stdTTL THEN AnswersHit(e) ELSE CountsMiss(p, n)]_vars

\* A fetch is answered from the cache at the instant its entry is exactly
\* TTL old.
C4_Witness ==
  /\ last.tag = "HIT"
  /\ last.at = now
  /\ \E e \in imageCache.data : e.v = last.body /\ Age(e) = stdTTL
  /\ imageCache.hits = 1

\* C5: every cache lookup of a fetch increments exactly one of hits and
\* misses, hits when it answers HIT and misses when it goes to the store, and
\* hits + misses is the number of lookups as long as the cache is not flushed.
C5_HitOrMiss ==
  /\ [](~flushed => imageCache.hits + imageCache.misses = lookups)
  /\ [][\A p \in Procs, n \in ObjectNames :
          PngLookup(p, n) =>
            \/ /\ imageCache'.hits = imageCache.hits + 1
               /\ imageCache'.misses = imageCache.misses
               /\ last'.tag = "HIT" /\ reqs' = reqs
            \/ /\ imageCache'.hits = imageCache.hits
               /\ imageCache'.misses = imageCache.misses + 1
               /\ reqs'[p].pc = "awaitGet" /\ last' = last]_vars

\* A hit and a miss have been counted.
C5_Witness ==
  /\ ~flushed
  /\ lookups = 2
  /\ imageCache.hits = 1
  /\ imageCache.misses = 1

\* A cache-clear request that passes the API-key check takes this step.
ClearStep ==
  /\ last'.op = "clear"
  /\ last'.status = 200
  /\ \E c \in Callers : CacheClear(c.legacy, c.apiKey)

\* C6 as stated: hits and misses never decrease, a cache clear included.
C6_CountersMonotone ==
  [][imageCache'.hits >= imageCache.hits /\ imageCache'.misses >= imageCache.misses]_vars

\* C6 amended: hits and misses never decrease in any step other than a cache
\* clear, and a cache clear removes the entries and sets both to zero.
C6_CountersResetOnClear ==
  [][IF ClearStep
     THEN imageCache'.data = {} /\ imageCache'.hits = 0 /\ imageCache'.misses = 0
     ELSE imageCache'.hits >= imageCache.hits /\ imageCache'.misses >= imageCache.misses]_vars

\* Lookups were counted, the cache was cleared last, and the counters are zero.
C6_Witness ==
  /\ last = Response("clear", 200, "ok", NoBuf)
  /\ lookups = 2
  /\ imageCache.hits = 0
  /\ imageCache.misses = 0

ProtectedRequest(k) ==
  \/ UploadRequest(1, k)
  \/ UploadDirectRequest(1, k)
  \/ DeleteRequest(1, k)
  \/ CacheClear(FALSE, k)
  \/ ReloadStart(1, FALSE, k)

\* The comma-separated entries of API_KEYS with the blanks around each
\* stripped, stated without the split and trim of the middleware: an entry
\* lies between two neighbouring commas (or an end of the value), and its
\* stripped form is what lies between its first and last non-blank character.
Commas(s) == {0, Len(s) + 1} \cup {i \in 1..Len(s) : s[i] = ","}

Stripped(s) ==
  LET inner == {i \in 1..Len(s) : ~IsSpace(s[i])}
  IN IF inner = {} THEN << >>
     ELSE SubSeq(s, CHOOSE i \in inner : \A j \in inner : i <= j,
                    CHOOSE i \in inner : \A j \in inner : i >= j)

ConfiguredKeys(s) ==
  IF s = Undefined \/ s = Empty THEN {}
  ELSE {Stripped(SubSeq(s, a + 1, b - 1)) :
          <<a, b>> \in {x \in Commas(s) \X Commas(s) :
                         x[1] < x[2] /\ \A c \in Commas(s) : ~(x[1] < c /\ c < x[2])}}

\* The step is the middleware's refusal with the given status and code: the
\* handler is not entered and nothing but the response changes.
Refused(status, code) ==
  /\ last'.status = status
  /\ last'.tag = code
  /\ UNCHANGED <<store, imageCache, moderatorCache, reqs>>

\* The step is the handler's: it answers for itself or suspends at an await.
HandlerRan == reqs' # reqs \/ last'.tag \in {"ok", "error"}

\* C8: the middleware has exactly one of four outcomes per request: 401
\* MISSING_API_KEY exactly when the header is absent or empty, 500
\* SERVER_MISCONFIGURED only when there is no configured entry, 403
\* INVALID_API_KEY only when the key is none of the entries, or next(); next()
\* is called exactly when the key is non-empty and is one of the trimmed
\* comma-separated entries of API_KEYS.
C8_FourOutcomes ==
  [][\A k \in ApiKeyHeaders :
       ProtectedRequest(k) =>
         /\ \/ Refused(401, "MISSING_API_KEY")
            \/ Refused(500, "SERVER_MISCONFIGURED")
            \/ Refused(403, "INVALID_API_KEY")
            \/ HandlerRan
         /\ Refused(401, "MISSING_API_KEY") <=> ~Truthy(k)
         /\ Refused(500, "SERVER_MISCONFIGURED") => ConfiguredKeys(env) = {}
         /\ Refused(403, "INVALID_API_KEY") => k \notin ConfiguredKeys(env)
         /\ HandlerRan <=> (Truthy(k) /\ k \in ConfiguredKeys(env))]_vars

\* With two keys configured with blanks around them, a request was refused
\* 403 and then a request with a configured key was let through to the
\* delete handler, which is waiting to answer.
C8_Witness ==
  /\ ConfiguredKeys(env) = {K1, K2}
  /\ reqs[1].pc = "delDone"
  /\ last.tag = "INVALID_API_KEY"

\* API_KEYS configures no key: it is unset, empty, or separators and blanks.
NoKeyConfigured(s) ==
  s = Undefined \/ \A i \in 1..Len(s) : s[i] = "," \/ IsSpace(s[i])

CarriesConfiguredKey(k) == Truthy(k) /\ k \in ConfiguredKeys(env)

\* C10: a request to a protected v1 route that carries no configured key
\* writes and deletes nothing in the store, changes neither cache, and its
\* handler is not entered.
C10_NoEffectWithoutKey ==
  [][\A k \in ApiKeyHeaders :
       (ProtectedRequest(k) /\ ~CarriesConfiguredKey(k)) =>
         /\ UNCHANGED <<store, imageCache, moderatorCache, reqs>>
         /\ ~HandlerRan]_vars

\* A request with a key that is not configured was refused while an object
\* is stored and its conversion cached.
C10_Witness ==
  /\ env = EnvK1K2
  /\ last.status = 403
  /\ store # {}
  /\ imageCache.data # {}

(***************************************************************************)
(* Properties of the whole surface (SpecSurface).                         *)
(***************************************************************************)
\* The step writes or deletes an object, clears the image cache, or drops
\* the cached moderator list.
Mutates ==
  \/ store' # store
  \/ /\ last'.op = "clear"
     /\ last'.status = 200
     /\ \E c \in SurfaceCallers : CacheClear(c.legacy, c.apiKey)
  \/ Has(moderatorCache, ModKey) /\ ~Has(moderatorCache', ModKey)

\* The step is a v1 request that carries a configured key.
PassedKeyCheck ==
  \E k \in SurfaceHeaders : CarriesConfiguredKey(k) /\ SurfaceProtected(FALSE, k)

FailedReload(p) ==
  /\ reqs[p].pc = "readFailed"
  /\ reqs[p].handler = "reload"
  /\ reqs[p].prev # {}

\* C13: when a reload whose read of the file failed completes, the list in
\* effect is the list that was cached when the reload was requested.
C13_FailedReloadKeepsList ==
  [][\A p \in Procs :
       (FailedReload(p) /\ LoadFinish(p)) =>
         /\ Has(moderatorCache', ModKey)
         /\ Entry(moderatorCache', ModKey).v \in reqs[p].prev]_vars

\* C14: a load whose read of the file failed raises nothing: it stores
\* nothing in the moderator cache and its handler answers 200, a membership
\* check with isModerator = false, a listing or reload with count 0.
C14_FailedLoadIsEmpty ==
  [][\A p \in Procs :
       (reqs[p].pc = "readFailed" /\ LoadFinish(p)) =>
         /\ moderatorCache' = moderatorCache
         /\ last'.status = 200
         /\ last'.op = reqs[p].handler
         /\ IF reqs[p].handler = "check"
            THEN last'.tag = "notModerator"
            ELSE last'.body.px = 0]_vars

\* A membership check was answered "not a moderator" after its read failed:
\* no reload was ever requested, the file was looked for, nothing is cached.
C14_Witness ==
  /\ last.op = "check"
  /\ last.status = 200
  /\ last.tag = "notModerator"
  /\ latest = NoReload
  /\ moderatorCache.misses = 1
  /\ ~Has(moderatorCache, ModKey)
  /\ \A p \in Procs : reqs[p].pc = "idle"

\* The membership answer the step sends for username u against the list.
AnswersMembership(u, moderators) ==
  /\ last'.op = "check"
  /\ last'.status = 200
  /\ last'.tag = "moderator" <=> includes(moderators, toLowerCase(trim(u)))

\* C15: a membership check for u answers true exactly when the lower-cased,
\* whitespace-trimmed u is in the list, whether the list came from the cache
\* or from the file.
C15_MembershipNormalised ==
  [][/\ \A p \in Procs, u \in Usernames :
          (Has(moderatorCache, ModKey) /\ ModCheckStart(p, u) /\ reqs' = reqs /\ last'.status = 200)
            => AnswersMembership(u, Entry(moderatorCache, ModKey).v)
     /\ \A p \in Procs :
          (reqs[p].pc = "readDone" /\ reqs[p].handler = "check" /\ LoadFinish(p))
            => AnswersMembership(reqs[p].username, parseModerators(reqs[p].content))]_vars

\* The lines of a file content, by position: a line lies between two
\* neighbouring line breaks (or an end of the content); LineStarts holds the
\* break before each line that is neither blank nor a comment once stripped.
Breaks(s) == {0, Len(s) + 1} \cup {i \in 1..Len(s) : s[i] = "\n"}

LineAfter(s, a) ==
  LET b == CHOOSE x \in Breaks(s) : x > a /\ \A c \in Breaks(s) : ~(a < c /\ c < x)
  IN Stripped(SubSeq(s, a + 1, b - 1))

LineStarts(s) ==
  {a \in Breaks(s) \ {Len(s) + 1} : LineAfter(s, a) # << >> /\ LineAfter(s, a)[1] # "#"}

\* The identifier of the i-th kept line.
Identifier(s, i) ==
  LET a == CHOOSE x \in LineStarts(s) : Cardinality({y \in LineStarts(s) : y < x}) = i - 1
  IN toLowerCase(LineAfter(s, a))

Identifiers(s) == {Identifier(s, i) : i \in 1..Cardinality(LineStarts(s))}

\* The load of handler p completes after a successful read.
LoadSucceeds(p) == reqs[p].pc = "readDone" /\ LoadFinish(p)

\* The count reported by the step, for a listing or a reload.
ReportsCount(p, n) == reqs[p].handler = "check" \/ last'.body.px = n

\* C16 as stated: the list cached by a successful load holds the lower-cased
\* stripped form of every line that is neither blank nor a comment, each
\* identifier once, and the reported count is the number of identifiers.
C16_LoadsSet ==
  [][\A p \in Procs :
       LoadSucceeds(p) =>
         LET loaded == Entry(moderatorCache', ModKey).v
         IN /\ {loaded[i] : i \in 1..Len(loaded)} = Identifiers(reqs[p].content)
            /\ \A i, j \in 1..Len(loaded) : loaded[i] = loaded[j] => i = j
            /\ ReportsCount(p, Cardinality(Identifiers(reqs[p].content)))]_vars

\* C16 amended: the list cached by a successful load holds, in the order of
\* the file, the lower-cased stripped form of every line that is neither
\* blank nor a comment once stripped, one element per such line, a repeated
\* identifier repeated; the reported count is the number of such lines.
C16_LoadsList ==
  [][\A p \in Procs :
       LoadSucceeds(p) =>
         LET loaded == Entry(moderatorCache', ModKey).v
             content == reqs[p].content
         IN /\ Len(loaded) = Cardinality(LineStarts(content))
            /\ \A i \in 1..Len(loaded) : loaded[i] = Identifier(content, i)
            /\ ReportsCount(p, Cardinality(LineStarts(content)))]_vars

\* A listing loaded the file that names one moderator on two lines and
\* reported two.
C16_Witness ==
  /\ last.op = "list"
  /\ last.body.px = 2
  /\ Has(moderatorCache, ModKey)
  /\ Entry(moderatorCache, ModKey).v = <<<<"a", "b">>, <<"a", "b">>>>
  /\ Entry(moderatorCache, ModKey).t = now + modTTL

\* The cached moderator list, as a set: empty when none is cached.
CachedList(c) == {e.v : e \in {x \in c.data : x.k = ModKey}}

\* A membership check answered from the cache is answered from the whole
\* cached list.
ChecksWholeList ==
  \A p \in Procs, u \in Usernames :
    (Has(moderatorCache, ModKey) /\ ModCheckStart(p, u) /\ reqs' = reqs /\ last'.status = 200)
      => last' = Answer("check", u, Entry(moderatorCache, ModKey).v)

\* The reload of handler p completes and no other reload is in flight.
LastReloadCompletes(p) ==
  /\ reqs[p].handler = "reload"
  /\ \A q \in Procs \ {p} : reqs[q].handler # "reload"
  /\ LoadFinish(p)

ListAge(e) == now - (e.t - modTTL)

\* The check of username u by handler p is answered from the cached list e,
\* whatever the file holds now.
AnswersCached(p, u, e) ==
  /\ last' = Answer("check", u, e.v)
  /\ reqs' = reqs
  /\ moderatorCache'.data = moderatorCache.data
  /\ moderatorCache'.hits = moderatorCache.hits + 1

\* The check drops the cached list and goes to read the file.
GoesToFile(p) ==
  /\ reqs'[p].pc = "awaitRead"
  /\ last' = last
  /\ ~Has(moderatorCache', ModKey)
  /\ moderatorCache'.misses = moderatorCache.misses + 1

\* A well-formed membership check by handler p finds a list cached.
CheckOfCached(p, u) ==
  /\ Has(moderatorCache, ModKey)
  /\ trim(u) # Empty
  /\ ModCheckStart(p, u)

\* C18 as stated: a check made less than 24 hours after the list was loaded
\* is answered from the cached list, a check made 24 hours or more after it
\* reads the file.
C18_ReloadAtDay ==
  [][\A p \in Procs, u \in Usernames :
       CheckOfCached(p, u) =>
         LET e == Entry(moderatorCache, ModKey)
         IN IF ListAge(e) < modTTL THEN AnswersCached(p, u, e) ELSE GoesToFile(p)]_vars

\* C18 amended: a check made 24 hours or less after the list was loaded is
\* answered from the cached list, a check made more than 24 hours after it
\* reads the file.
C18_ReloadAfterDay ==
  [][\A p \in Procs, u \in Usernames :
       CheckOfCached(p, u) =>
         LET e == Entry(moderatorCache, ModKey)
         IN IF ListAge(e) <= modTTL THEN AnswersCached(p, u, e) ELSE GoesToFile(p)]_vars

\* A check made exactly 24 hours after the only load was answered from the
\* cached list although the file has changed since.
C18_Witness ==
  /\ last.op = "check"
  /\ last.status = 200
  /\ last.at = now
  /\ latest = NoReload
  /\ moderatorCache.hits = 1
  /\ moderatorCache.misses = 1
  /\ Has(moderatorCache, ModKey)
  /\ ListAge(Entry(moderatorCache, ModKey)) = modTTL
  /\ Entry(moderatorCache, ModKey).v # parseModerators(modFile)

(***************************************************************************)
(* Properties of uploads and of failed conversions (SpecUpload).          *)
(***************************************************************************)
\* Handler p holds the bytes of a .webp object that are no image and is
\* about to convert them for a png request.
ConversionFails(p) ==
  /\ reqs[p].pc = "gotData"
  /\ reqs[p].format = FmtPng
  /\ reqs[p].fileName = BWebp
  /\ reqs[p].data = BadBuf

\* C19: a fetch whose conversion fails leaves the image cache as it is and
\* is answered 500, not 404.
C19_FailedConversionNotCached ==
  [][\A p \in Procs :
       (ConversionFails(p) /\ FetchFinish(p)) =>
         /\ imageCache' = imageCache
         /\ last'.op = "fetch"
         /\ last'.status = 500
         /\ last'.status # 404]_vars

\* A fetch of the stored non-image was answered 500 while the conversion of
\* another object stays cached and no entry exists for the failed one.
C19_Witness ==
  /\ last.op = "fetch"
  /\ last.status = 500
  /\ last.tag = "convertError"
  /\ Stored(store, BWebp)
  /\ Body(store, BWebp) = BadBuf
  /\ Has(imageCache, cacheKey(AWebp, FmtPng))
  /\ ~Has(imageCache, cacheKey(BWebp, FmtPng))

\* The uploads that fail validation: no file, an extension that is not
\* accepted; for the raw-binary route no fileName, a fileName not ending
\* in .png.
UploadInvalid(p, c) ==
  \/ \E f \in {NoFile, [originalname |-> AGif, buffer |-> Png1]} :
       UploadStart(p, c.legacy, c.apiKey, f)
  \/ \E n \in {<<Undefined, Undefined>>, <<Undefined, AGif>>}, b \in DirectBodies :
       UploadDirectStart(p, c.legacy, c.apiKey, n[1], n[2], b)

\* C20: an upload that fails validation is answered 400, writes nothing to
\* the store, touches no entry or counter of the image cache, and leaves no
\* handler suspended.
C20_InvalidUploadRejected ==
  [][\A p \in Procs, c \in UploadCallers :
       UploadInvalid(p, c) =>
         /\ last'.op = "upload"
         /\ last'.status = 400
         /\ UNCHANGED <<store, imageCache, reqs>>]_vars

\* An invalid upload was answered 400 while an object is stored and its
\* conversion cached.
C20_Witness ==
  /\ last.op = "upload"
  /\ last.status = 400
  /\ Stored(store, AWebp)
  /\ Has(imageCache, cacheKey(AWebp, FmtPng))

(***************************************************************************)
(* Properties of concurrent fetches (SpecFetch).                          *)
(***************************************************************************)
\* The conversion of the bytes handler p holds fails: a png request of a
\* .webp object whose bytes are no image.
Unconvertible(p) ==
  /\ reqs[p].format = FmtPng
  /\ endsWith(reqs[p].fileName, DotWebp)
  /\ reqs[p].data = BadBuf

\* C21: a fetch is answered 404 only when the store holds no object of that
\* name, and then with the code NoSuchKey; an object that is absent gives 404
\* or, when the store request itself fails, 500; an object that is present
\* never gives 404; once the bytes are read the answer is 500 exactly when
\* the conversion fails, and 200 otherwise.
C21_NotFoundIsNotError ==
  [][\A p \in Procs :
       /\ (reqs[p].pc = "awaitGet" /\ FetchStoreRead(p)) =>
            IF Stored(store, reqs[p].fileName)
            THEN reqs'[p].pc = "gotData" \/ (last'.status = 500 /\ last'.tag = "error")
            ELSE /\ last'.op = "fetch"
                 /\ \/ last'.status = 404 /\ last'.tag = "NoSuchKey"
                    \/ last'.status = 500 /\ last'.tag = "error"
       /\ (reqs[p].pc = "gotData" /\ FetchFinish(p)) =>
            /\ last'.op = "fetch"
            /\ last'.status = IF Unconvertible(p) THEN 500 ELSE 200]_vars

\* A fetch was answered 404 while another object is stored and no entry is
\* cached for the one asked for.
C21_Witness ==
  /\ last.op = "fetch"
  /\ last.status = 404
  /\ Stored(store, BWebp)
  /\ ~Stored(store, AWebp)
  /\ imageCache.misses > 0
  /\ \A e \in imageCache.data : e.k # cacheKey(AWebp, FmtPng)

(***************************************************************************)
(* Progress of a fetch (SpecLive).                                         *)
(***************************************************************************)
\* Handler p is a fetch suspended at the store or at the converter.
FetchPending(p) == reqs[p].pc \in {"awaitGet", "gotData"}

\* C22: with a store and a converter that always eventually answer, every
\* fetch is eventually answered; and a fetch of an object the store holds
\* is answered 200 with the object's bytes, converted for a png request of a
\* .webp object, unless the store request or the conversion fails.
C22_FetchAnswered ==
  /\ \A p \in Procs : FetchPending(p) ~> (reqs[p].pc = "idle" /\ last.op = "fetch")
  /\ [][\A p \in Procs :
          /\ (reqs[p].pc = "awaitGet" /\ Stored(store, reqs[p].fileName) /\ FetchStoreRead(p)) =>
               \/ reqs'[p].pc = "gotData" /\ reqs'[p].data = Body(store, reqs[p].fileName)
               \/ last' = Response("fetch", 500, "error", NoBuf)
          /\ (reqs[p].pc = "gotData" /\ ~Unconvertible(p) /\ FetchFinish(p)) =>
               /\ last'.status = 200
               /\ last'.body \in {reqs[p].data, toPng(reqs[p].data)}]_vars

\* A fetch of a stored object has been answered 200 with bytes while another
\* fetch is still waiting for the store.
C22_Witness ==
  /\ last.op = "fetch"
  /\ last.status = 200
  /\ last.body # NoBuf
  /\ reqs[1].pc = "awaitGet"
  /\ Stored(store, reqs[1].fileName)

(***************************************************************************)
(* The keep-alive (SpecKeep).                                              *)
(***************************************************************************)
\* C23: at no instant have more than ten minutes passed since the last ping
\* was issued or, before the first ping, since the server started listening.
C23_PingEveryTenMinutes == now - timer.lastPing <= keepAliveInterval

(***************************************************************************)
(* Visibility of a stored conversion (SpecHit).                            *)
(***************************************************************************)
KeyA == cacheKey(AWebp, FmtPng)

\* The conversion of a.webp is cached and within its TTL.
CachedA == Has(imageCache, KeyA) /\ Age(Entry(imageCache, KeyA)) <= stdTTL

\* A png fetch of a.webp that begins while its conversion is cached within
\* the TTL is answered HIT with the cached bytes and contacts neither the
\* store nor the converter.
ServedFromCache ==
  \A p \in Procs :
    (CachedA /\ FetchStart(p, AWebp, FmtPng)) =>
      /\ last' = Response("fetch", 200, "HIT", Entry(imageCache, KeyA).v)
      /\ reqs' = reqs
      /\ store' = store

\* The step leaves the cached bytes of a.webp as they are.
KeepsA == Has(imageCache', KeyA) /\ Entry(imageCache', KeyA).v = Entry(imageCache, KeyA).v

\* The step is the completion of a delete of a.webp, or a cache clear.
RemovesA ==
  \/ \E p \in Procs : reqs[p].pc = "delDone" /\ reqs[p].fileName = AWebp /\ DeleteFinish(p)
  \/ last'.op = "clear" /\ last'.status = 200 /\ CacheClear(TRUE, Undefined)

\* The step is the completion of a png fetch of a.webp that had missed: it
\* stores its own conversion.
OverwritesA ==
  \E p \in Procs :
    /\ reqs[p].pc = "gotData"
    /\ reqs[p].fileName = AWebp
    /\ FetchFinish(p)
    /\ Has(imageCache', KeyA)
    /\ Entry(imageCache', KeyA).v = toPng(reqs[p].data)

\* C24 as stated: bytes stored by a png fetch stay cached, while within the
\* TTL, until a delete of the object or a cache clear, and every png fetch
\* that begins meanwhile is answered HIT with them without contacting the
\* store or the converter.
C24_StoredBytesServed ==
  [][/\ ServedFromCache
     /\ CachedA => (KeepsA \/ RemovesA)]_vars

\* C24 amended: the same, except that the completion of another png fetch of
\* the object that had missed replaces the cached bytes by its own
\* conversion; a hit returns the bytes stored last.
C24_LastStoredBytesServed ==
  [][/\ ServedFromCache
     /\ CachedA => (KeepsA \/ RemovesA \/ OverwritesA)]_vars

\* A png fetch was answered HIT, some time after the conversion was stored
\* and within the TTL, with the bytes that are cached; nothing was deleted
\* or cleared.
C24_Witness ==
  /\ last.tag = "HIT"
  /\ last.at = now
  /\ Has(imageCache, KeyA)
  /\ last.body = Entry(imageCache, KeyA).v
  /\ Age(Entry(imageCache, KeyA)) > 0
  /\ Age(Entry(imageCache, KeyA)) < stdTTL
  /\ ~flushed
  /\ tomb[AWebp] = "none"

(***************************************************************************)
(* Concurrent fetches of the same and of different objects (SpecFetch).    *)
(***************************************************************************)
\* The objects whose conversion the image cache holds.
CachedNames(c) == {n \in StoredNames : Has(c, cacheKey(n, FmtPng))}

\* Every entry is the conversion of a picture of the object it is keyed by.
EntriesOfOwnKey(c) ==
  \A e \in c.data :
    \E n \in StoredNames :
      /\ e.k = cacheKey(n, FmtPng)
      /\ e.v.fmt = "png"
      /\ e.v.px \in Pictures(n)

OneEntryPerKey(c) == \A e1, e2 \in c.data : e1.k = e2.k => e1 = e2

\* C25: a hit for an object returns bytes that were stored for that object,
\* never those of another; the cache holds at most one entry per key, the
\* completion of a fetch that missed making its own conversion the entry
\* (last writer wins); and hits plus misses equals the number of lookups.
C25_HitsOfOwnKey ==
  [][/\ \A p \in Procs, n \in StoredNames :
          (FetchStart(p, n, FmtPng) /\ last'.tag = "HIT" /\ reqs' = reqs) =>
            /\ last'.body.fmt = "png"
            /\ last'.body.px \in Pictures(n)
            /\ last'.body = Entry(imageCache, cacheKey(n, FmtPng)).v
     /\ \A p \in Procs :
          (reqs[p].pc = "gotData" /\ FetchFinish(p) /\ last'.status = 200
             /\ reqs[p].format = FmtPng /\ endsWith(reqs[p].fileName, DotWebp)) =>
            Entry(imageCache', cacheKey(reqs[p].fileName, FmtPng)).v = toPng(reqs[p].data)
     /\ EntriesOfOwnKey(imageCache')
     /\ OneEntryPerKey(imageCache')
     /\ imageCache'.keys = Cardinality(imageCache'.data)
     /\ imageCache'.hits + imageCache'.misses = lookups']_vars

\* Two fetches of a.webp missed and both completed, the object having been
\* uploaded again in between: exactly one entry is left for a.webp, and it
\* holds the conversion of the earlier picture.
C25_Witness ==
  /\ \A p \in Procs : reqs[p].pc = "idle"
  /\ imageCache.misses = 2
  /\ imageCache.hits = 0
  /\ last.op = "fetch"
  /\ last.tag = "MISS"
  /\ CachedNames(imageCache) = {AWebp}
  /\ Cardinality(imageCache.data) = 1
  /\ Stored(store, AWebp)
  /\ Body(store, AWebp).px # Entry(imageCache, cacheKey(AWebp, FmtPng)).v.px

(***************************************************************************)
(* Population of the cache by a fetch that missed (SpecFetch).             *)
(***************************************************************************)
\* The step answers the fetch suspended in slot p successfully from the
\* store.
AnsweredFromStore(p) ==
  /\ reqs[p].pc = "gotData"
  /\ FetchFinish(p)
  /\ last'.status = 200

\* After the step the cache holds an unexpired entry for the key.
LiveAfter(k) == Has(imageCache', k) /\ ~expired(Entry(imageCache', k), now')

\* C26 as stated: after a fetch of (K, format) that was answered
\* successfully from the store, a live entry for (K, format) exists,
\* whatever the format and the key.
C26_EveryFetchPopulates ==
  [][\A p \in Procs :
       AnsweredFromStore(p) => LiveAfter(cacheKey(reqs[p].fileName, reqs[p].format))]_vars

\* C26 amended: a png fetch (the default format) looks its key up in the
\* cache, and when it missed and was answered with the conversion of an
\* object whose key ends in '.webp', a live entry for (K, png) holds the
\* bytes sent, expiring one TTL later; a fetch of another format does not
\* look into the cache, and a fetch answered with the stored bytes leaves
\* the cache as it was.
C26_PngOfWebpPopulates ==
  [][/\ \A p \in Procs :
          AnsweredFromStore(p) =>
            IF reqs[p].format = FmtPng /\ endsWith(reqs[p].fileName, DotWebp)
            THEN /\ LiveAfter(cacheKey(reqs[p].fileName, FmtPng))
                 /\ Entry(imageCache', cacheKey(reqs[p].fileName, FmtPng)).v = last'.body
                 /\ Entry(imageCache', cacheKey(reqs[p].fileName, FmtPng)).t = now + stdTTL
                 /\ last'.body = toPng(reqs[p].data)
            ELSE /\ imageCache' = imageCache
                 /\ last'.body = reqs[p].data
     /\ \A p \in Procs, n \in StoredNames, f \in Formats :
          FetchStart(p, n, f) =>
            IF f = FmtWebp
            THEN imageCache' = imageCache
            ELSE imageCache'.hits + imageCache'.misses
                   = imageCache.hits + imageCache.misses + 1]_vars

\* A png fetch of b.webp missed and was answered with the conversion, which
\* the cache now holds.
C26_Witness ==
  /\ last.op = "fetch"
  /\ last.tag = "MISS"
  /\ last.body = toPng(Webp3)
  /\ imageCache.misses >= 1
  /\ Has(imageCache, cacheKey(BWebp, FmtPng))
  /\ Entry(imageCache, cacheKey(BWebp, FmtPng)).v = last.body
  /\ \E p \in Procs : reqs[p].pc = "idle"

(***************************************************************************)
(* The statistics and the requests that only read (SpecRead).              *)
(***************************************************************************)
\* rate, in hundredths of a percent, is the hundredth nearest to
\* 100 * hits / (hits + misses).
NearestHundredth(rate, hits, misses) ==
  LET diff == rate * (hits + misses) - hits * 10000
  IN 2 * (IF diff < 0 THEN 0 - diff ELSE diff) <= hits + misses

\* C27: the statistics response reports hits / (hits + misses) as a
\* percentage, 0 when both counters are zero, and the division is made only
\* with a divisor that is not zero.
C27_HitRate ==
  [][CacheStats =>
       LET stats == getStats(imageCache)
           rate == last'.body.px
       IN /\ last'.op = "stats"
          /\ (stats.hits + stats.misses = 0) => rate = 0
          /\ (stats.hits + stats.misses # 0) =>
               NearestHundredth(rate, stats.hits, stats.misses)
          /\ stats.hits > 0 => stats.hits + stats.misses # 0]_vars

\* The statistics were reported after one hit and one miss: 50.00%.
C27_Witness ==
  /\ last.op = "stats"
  /\ last.body.px = 5000
  /\ imageCache.hits = 1
  /\ imageCache.misses = 1

\* The step belongs to a list-objects, statistics, health, moderator-check
\* or moderator-list request.
ReadOnlyStep ==
  \/ CacheStats
  \/ Health
  \/ \E p \in Procs : ListStart(p) \/ ListFinish(p)
  \/ \E p \in Procs, u \in Usernames : ModCheckStart(p, u)
  \/ \E p \in Procs : ModListStart(p)
  \/ \E p \in Procs :
       /\ reqs[p].pc \in {"awaitRead", "readDone", "readFailed"}
       /\ reqs[p].handler \in {"check", "list"}
       /\ (LoadRead(p) \/ LoadFinish(p))

\* C28: no step of a list-objects, statistics, health, moderator-check or
\* moderator-list request changes the image cache, entries or counters.
C28_ReadsLeaveCache ==
  [][ReadOnlyStep => imageCache' = imageCache]_vars

\* The list of objects was answered while the image cache held an entry and
\* had counted a hit and a miss.
C28_Witness ==
  /\ last.op = "images"
  /\ last.status = 200
  /\ last.at = now
  /\ imageCache.data # {}
  /\ imageCache.hits = 1
  /\ imageCache.misses = 1

(***************************************************************************)
(* The keys written by uploads (SpecFetch).                                *)
(***************************************************************************)
\* C29 as stated: every key an upload wrote to the store ends with the
\* lower-case suffix '.webp', so that a png fetch of it is converted and
\* cached.
C29_KeysEndInWebp ==
  \A o \in store : endsWith(o.key, DotWebp)

(***************************************************************************)
(* One response per request (SpecPaths).                                   *)
(***************************************************************************)
\* The operation of the request that is suspended with record r.
Handling(r) ==
  CASE r.pc \in {"awaitGet", "gotData"} -> "fetch"
    [] r.pc = "putDone" -> "upload"
    [] r.pc = "delDone" -> "delete"
    [] r.pc \in {"awaitRead", "readDone", "readFailed"} -> r.handler
    [] OTHER -> "none"

\* The step is the arrival of a request of operation op.
ArrivesAs(op) ==
  \/ op = "fetch" /\ \E f \in Formats : FetchStart(1, AWebp, f)
  \/ /\ op = "upload"
     /\ \E c \in SurfaceCallers :
          \/ \E f \in PathFiles : UploadStart(1, c.legacy, c.apiKey, f)
          \/ \E d \in PathDirects :
               UploadDirectStart(1, c.legacy, c.apiKey, d.fileName, Undefined, d.buffer)
  \/ op = "delete" /\ \E c \in SurfaceCallers : DeleteStart(1, c.legacy, c.apiKey, AWebp)
  \/ op = "clear" /\ \E c \in SurfaceCallers : CacheClear(c.legacy, c.apiKey)
  \/ op = "stats" /\ CacheStats
  \/ op = "check" /\ \E u \in Usernames : ModCheckStart(1, u)
  \/ op = "list" /\ ModListStart(1)
  \/ op = "reload" /\ \E c \in SurfaceCallers : ReloadStart(1, c.legacy, c.apiKey)

Operations == {"fetch", "upload", "delete", "clear", "stats", "check", "list", "reload"}

Statuses == {200, 400, 401, 403, 404, 500}

\* The step sends one response, of operation op.
Responds(op) ==
  /\ last'.op = op
  /\ last'.at = now
  /\ last'.status \in Statuses

====
